---------------------------- MODULE Spec2Model ----------------------------
(***************************************************************************)
(* Model of the console phone book (src/main.py): the in-memory contact    *)
(* list of Phonebook, the csv file of CsvFileStorage, and the command loop *)
(* with every prompt of every flow as one step.                            *)
(*                                                                         *)
(* Text is a sequence of characters, each character a one-token string.    *)
(* Cyrillic letters are written as tokens "cyr_x"; a csv column title is   *)
(* one token "<..>".  Python values are tagged with their type, because    *)
(* the program stores both int and str in Contact.index.                   *)
(***************************************************************************)
EXTENDS Integers, Sequences, FiniteSets, TLC

(***************************************************************************)
(* Bounds of the model.                                                    *)
(***************************************************************************)
\* Contacts in the catalog of the whole program.
MaxContacts == 3

\* Contacts in the lists printed page by page.
MaxListed == 7

(***************************************************************************)
(* Python values: int, str, None.                                          *)
(***************************************************************************)
IntVal(k) == [ty |-> "int", n |-> k, s |-> <<>>]
StrVal(t) == [ty |-> "str", n |-> 0, s |-> t]
NoneVal == [ty |-> "none", n |-> 0, s |-> <<>>]

Digits == <<"0", "1", "2", "3", "4", "5", "6", "7", "8", "9">>

DigitChars == {Digits[i] : i \in 1..10}

\* Characters for which str.isnumeric() is true.  "sup2" is U+00B2, which is
\* numeric but is no decimal digit: int() rejects it.
NumericChars == DigitChars \cup {"sup2"}

DigitValue(c) == (CHOOSE i \in 1..10 : Digits[i] = c) - 1

\* str.isnumeric(): non-empty and every character numeric.
IsNumeric(t) == Len(t) > 0 /\ \A i \in 1..Len(t) : t[i] \in NumericChars

\* int(t) succeeds (for the texts used here: only decimal digits).
IntParses(t) == Len(t) > 0 /\ \A i \in 1..Len(t) : t[i] \in DigitChars

RECURSIVE ToInt(_)
ToInt(t) ==
    IF Len(t) = 0 THEN 0
    ELSE 10 * ToInt(SubSeq(t, 1, Len(t) - 1)) + DigitValue(t[Len(t)])

RECURSIVE IntToText(_)
IntToText(k) ==
    IF k < 10 THEN <<Digits[k + 1]>>
    ELSE Append(IntToText(k \div 10), Digits[(k % 10) + 1])

\* str(v)
PyStr(v) ==
    CASE v.ty = "int" -> IntToText(v.n)
      [] v.ty = "str" -> v.s
      [] OTHER -> <<"N", "o", "n", "e">>

\* str.lower() for the characters of the model.
LowerChar(c) ==
    CASE c = "A" -> "a"
      [] c = "B" -> "b"
      [] c = "Y" -> "y"
      [] c = "N" -> "n"
      [] c = "P" -> "p"
      [] c = "CYR_D" -> "cyr_d"
      [] OTHER -> c

Lower(t) == [i \in 1..Len(t) |-> LowerChar(t[i])]

\* q in t, for two str
IsSubstring(q, t) ==
    \E i \in 0..(Len(t) - Len(q)) : SubSeq(t, i + 1, i + Len(q)) = q

\* t.split(): the whitespace-separated tokens of a line.
RECURSIVE SplitFrom(_, _, _, _)
SplitFrom(t, i, cur, acc) ==
    IF i > Len(t)
    THEN IF cur = <<>> THEN acc ELSE Append(acc, cur)
    ELSE IF t[i] = " "
         THEN SplitFrom(t, i + 1, <<>>, IF cur = <<>> THEN acc ELSE Append(acc, cur))
         ELSE SplitFrom(t, i + 1, Append(cur, t[i]), acc)

Split(t) == SplitFrom(t, 1, <<>>, <<>>)

RECURSIVE Join(_, _)
Join(sep, ts) ==
    IF Len(ts) = 0 THEN <<>>
    ELSE IF Len(ts) = 1 THEN ts[1]
    ELSE ts[1] \o sep \o Join(sep, Tail(ts))

RECURSIVE Concat(_)
Concat(ts) == IF Len(ts) = 0 THEN <<>> ELSE ts[1] \o Concat(Tail(ts))

(***************************************************************************)
(* field_map, csv_fields, contact_fields and the Contact dataclass.        *)
(***************************************************************************)
contact_fields ==
    <<"index", "last_name", "name", "middle_name", "organization",
      "work_phone", "private_phone">>

csv_fields ==
    << <<"<No>">>, <<"<Familiya>">>, <<"<Imya>">>, <<"<Otchestvo>">>,
       <<"<Organizatsiya>">>, <<"<Rabochiy telefon>">>, <<"<Lichnyy telefon>">> >>

\* field_map: the keys 1..7, each with its (title_en, title_ru).
field_map ==
    [k \in 1..7 |-> [title_en |-> contact_fields[k], title_ru |-> csv_fields[k]]]

\* Contact(index, ...): the other fields default to "".
Contact(ix) ==
    [index |-> ix, last_name |-> StrVal(<<>>), name |-> StrVal(<<>>),
     middle_name |-> StrVal(<<>>), organization |-> StrVal(<<>>),
     work_phone |-> StrVal(<<>>), private_phone |-> StrVal(<<>>)]

\* Contact(*row) for a row of seven values.
ContactOfRow(row) == [f \in DOMAIN Contact(NoneVal) |->
    row[CHOOSE k \in 1..7 : contact_fields[k] = f]]

\* Contact.data_row
data_row(c) == [k \in 1..7 |-> c[contact_fields[k]]]

(***************************************************************************)
(* The csv module as CsvFileStorage uses it: csv.DictWriter (excel dialect, *)
(* minimal quoting, "\r\n" line ends) and csv.DictReader over a text file   *)
(* opened with universal newlines.                                          *)
(***************************************************************************)
Quote == "\""

NeedsQuote(t) == \E i \in 1..Len(t) : t[i] \in {",", Quote, "\r", "\n"}

RECURSIVE DoubleQuotes(_)
DoubleQuotes(t) ==
    IF Len(t) = 0 THEN <<>>
    ELSE (IF t[1] = Quote THEN <<Quote, Quote>> ELSE <<t[1]>>) \o DoubleQuotes(Tail(t))

\* One field as csv.writer writes it: None as '', anything else as str(value),
\* quoted only when it holds a special character.
WriteField(v) ==
    LET t == IF v.ty = "none" THEN <<>> ELSE PyStr(v)
    IN  IF NeedsQuote(t) THEN <<Quote>> \o DoubleQuotes(t) \o <<Quote>> ELSE t

\* csv.writer.writerow
WriteRow(values) ==
    Join(<<",">>, [k \in 1..Len(values) |-> WriteField(values[k])]) \o <<"\r", "\n">>

\* DictWriter.writeheader
WriteHeader == WriteRow([k \in 1..7 |-> StrVal(csv_fields[k])])

\* Universal newlines on reading: "\r\n" and "\r" become "\n".
RECURSIVE Translate(_)
Translate(t) ==
    IF Len(t) = 0 THEN <<>>
    ELSE IF t[1] = "\r"
         THEN <<"\n">> \o Translate(IF Len(t) > 1 /\ t[2] = "\n"
                                     THEN SubSeq(t, 3, Len(t)) ELSE Tail(t))
         ELSE <<t[1]>> \o Translate(Tail(t))

\* csv.reader: the rows of a text, by the reader's state machine
\* (START_RECORD, START_FIELD, IN_FIELD, IN_QUOTED_FIELD,
\* QUOTE_IN_QUOTED_FIELD); a blank line is the row <<>>.
RECURSIVE ReaderFrom(_, _, _, _, _, _)
ReaderFrom(t, i, st, field, fields, rows) ==
    IF i > Len(t)
    THEN IF st = "START_RECORD" THEN rows ELSE Append(rows, Append(fields, field))
    ELSE LET c == t[i] IN
      CASE st \in {"START_RECORD", "START_FIELD"} ->
             IF c = "\n"
             THEN ReaderFrom(t, i + 1, "START_RECORD", <<>>, <<>>,
                             Append(rows, IF st = "START_RECORD" THEN <<>>
                                          ELSE Append(fields, <<>>)))
             ELSE IF c = Quote
             THEN ReaderFrom(t, i + 1, "IN_QUOTED_FIELD", <<>>, fields, rows)
             ELSE IF c = ","
             THEN ReaderFrom(t, i + 1, "START_FIELD", <<>>, Append(fields, <<>>), rows)
             ELSE ReaderFrom(t, i + 1, "IN_FIELD", <<c>>, fields, rows)
        [] st \in {"IN_FIELD", "QUOTE_IN_QUOTED_FIELD"} ->
             IF c = "\n"
             THEN ReaderFrom(t, i + 1, "START_RECORD", <<>>, <<>>,
                             Append(rows, Append(fields, field)))
             ELSE IF c = ","
             THEN ReaderFrom(t, i + 1, "START_FIELD", <<>>, Append(fields, field), rows)
             ELSE IF c = Quote /\ st = "QUOTE_IN_QUOTED_FIELD"
             THEN ReaderFrom(t, i + 1, "IN_QUOTED_FIELD", Append(field, c), fields, rows)
             ELSE ReaderFrom(t, i + 1, "IN_FIELD", Append(field, c), fields, rows)
        [] OTHER ->
             IF c = Quote
             THEN ReaderFrom(t, i + 1, "QUOTE_IN_QUOTED_FIELD", field, fields, rows)
             ELSE ReaderFrom(t, i + 1, "IN_QUOTED_FIELD", Append(field, c), fields, rows)

CsvReader(text) == ReaderFrom(Translate(text), 1, "START_RECORD", <<>>, <<>>, <<>>)

\* The value csv.DictReader gives for column `title` of a data row: the field
\* at the last position of `title` in the header, None (restval) when the row
\* is too short.  Only called when the header holds the title.
DictValue(fieldnames, row, title) ==
    LET k == CHOOSE j \in 1..Len(fieldnames) :
                 /\ fieldnames[j] = title
                 /\ \A m \in (j + 1)..Len(fieldnames) : fieldnames[m] # title
    IN  IF k <= Len(row) THEN StrVal(row[k]) ELSE NoneVal

(***************************************************************************)
(* CsvFileStorage                                                          *)
(***************************************************************************)
\* _init_storage: a missing file is created with the header row only.
NoFile == <<"<missing>">>

init_storage(f) == IF f = NoFile THEN WriteHeader ELSE f

\* read_all: [ok, contacts]; ok is FALSE when a csv_fields title is no key of
\* a data row (KeyError).  The first row is the header, blank rows among the
\* data rows are skipped.
read_all(f) ==
    LET rows == CsvReader(f)
        fieldnames == IF Len(rows) = 0 THEN <<>> ELSE rows[1]
        data == SelectSeq(Tail(IF Len(rows) = 0 THEN <<<<>>>> ELSE rows),
                          LAMBDA r : r # <<>>)
        known == \A k \in 1..7 : \E j \in 1..Len(fieldnames) : fieldnames[j] = csv_fields[k]
    IN  IF Len(data) = 0 THEN [ok |-> TRUE, contacts |-> <<>>]
        ELSE IF ~known THEN [ok |-> FALSE, contacts |-> <<>>]
        ELSE [ok |-> TRUE,
              contacts |-> [i \in 1..Len(data) |->
                 ContactOfRow([k \in 1..7 |-> DictValue(fieldnames, data[i], csv_fields[k])])]]

\* add_one: the row joined by commas, appended as it is.
add_one(f, contact) ==
    f \o Join(<<",">>, [k \in 1..7 |-> PyStr(data_row(contact)[k])])

\* save_all: the file is rewritten with the header and a row per contact.
save_all(cs) ==
    WriteHeader \o Concat([i \in 1..Len(cs) |-> WriteRow(data_row(cs[i]))])

(***************************************************************************)
(* get_answer and the pure helpers of Phonebook.                           *)
(***************************************************************************)
DEFAULT_PAGE_SIZE == 5

\* range(a, b) as the set of its int values
Range(a, b) == {IntVal(k) : k \in a..(b - 1)}

\* One pass of get_answer's loop on the input line t: it returns None on an
\* empty line, returns the answer (an int when the line is numeric) when it
\* is among correct_answers, and asks again otherwise.  int() raises
\* ValueError on a numeric line that is no decimal number.
get_answer(t, correct_answers) ==
    IF t = <<>> THEN [res |-> "return", val |-> NoneVal]
    ELSE IF IsNumeric(t) /\ ~IntParses(t) THEN [res |-> "ValueError", val |-> NoneVal]
    ELSE LET answer_ == IF IsNumeric(t) THEN IntVal(ToInt(t)) ELSE StrVal(t)
         IN  IF answer_ \in correct_answers
             THEN [res |-> "return", val |-> answer_]
             ELSE [res |-> "again", val |-> NoneVal]

\* `not v` of Python
Falsy(v) ==
    \/ v.ty = "none"
    \/ v.ty = "int" /\ v.n = 0
    \/ v.ty = "str" /\ v.s = <<>>

\* v.lower() exists only on str
HasLower(v) == v.ty = "str"

\* _update_indexes numbering from 0 (enumerate without its start argument).
update_indexes_from_zero(cs) ==
    [i \in 1..Len(cs) |-> [cs[i] EXCEPT !.index = IntVal(i - 1)]]

\* _update_indexes: the indexes become the ints 1..len
update_indexes(cs) == [i \in 1..Len(cs) |-> [cs[i] EXCEPT !.index = IntVal(i)]]

\* list.remove(x): the position of the first element equal to x, 0 if none
FirstEqual(cs, x) ==
    IF \E i \in 1..Len(cs) : cs[i] = x
    THEN CHOOSE i \in 1..Len(cs) : cs[i] = x /\ \A j \in 1..(i - 1) : cs[j] # x
    ELSE 0

RemoveAt(cs, k) == SubSeq(cs, 1, k - 1) \o SubSeq(cs, k + 1, Len(cs))

\* x in list
Contains(cs, x) == \E i \in 1..Len(cs) : cs[i] = x

\* One pass of _get_field_indexes on the input line t: the tokens that are
\* numeric and in range(max(field_map.keys())); int() raises ValueError on a
\* numeric token that is no decimal number.
MaxFieldKey == CHOOSE k \in DOMAIN field_map : \A j \in DOMAIN field_map : j <= k

FieldTokenOk(x) == IsNumeric(x) /\ IntVal(ToInt(x)) \in Range(0, MaxFieldKey)

get_field_indexes(t) ==
    LET answer_ == Split(t)
        kept == SelectSeq(answer_, FieldTokenOk)
    IN  IF \E i \in 1..Len(answer_) : IsNumeric(answer_[i]) /\ ~IntParses(answer_[i])
        THEN [res |-> "ValueError", val |-> <<>>]
        ELSE IF Len(kept) = Len(answer_)
        THEN [res |-> "return", val |-> [i \in 1..Len(kept) |-> ToInt(kept[i])]]
        ELSE [res |-> "again", val |-> <<>>]

\* search.text.lower() in getattr(contact, search.field).lower()
Matches(c, search) == IsSubstring(Lower(search.text), Lower(c[search.field].s))

\* The inner loop of _find_contacts_by_search_conditions for one contact,
\* from condition j on: the contact is appended when the count of matched
\* conditions reaches len(search_conditions) and it is not in the list yet.
RECURSIVE MatchFrom(_, _, _, _, _)
MatchFrom(c, search_conditions_, j, matched_fields_count, found_contacts_) ==
    IF j > Len(search_conditions_) THEN found_contacts_
    ELSE LET m == IF Matches(c, search_conditions_[j])
                  THEN matched_fields_count + 1 ELSE matched_fields_count
         IN  MatchFrom(c, search_conditions_, j + 1, m,
                 IF m = Len(search_conditions_) /\ ~Contains(found_contacts_, c)
                 THEN Append(found_contacts_, c) ELSE found_contacts_)

RECURSIVE FindFrom(_, _, _, _)
FindFrom(cs, search_conditions_, i, found_contacts_) ==
    IF i > Len(cs) THEN found_contacts_
    ELSE FindFrom(cs, search_conditions_, i + 1,
                  MatchFrom(cs[i], search_conditions_, 1, 0, found_contacts_))

\* _find_contacts_by_search_conditions: [ok, found]; ok is FALSE when some
\* searched field of some contact has no lower() (AttributeError).
find_contacts_by_search_conditions(cs, search_conditions_) ==
    IF \E i \in 1..Len(cs) : \E j \in 1..Len(search_conditions_) :
           ~HasLower(cs[i][search_conditions_[j].field])
    THEN [ok |-> FALSE, found |-> <<>>]
    ELSE [ok |-> TRUE, found |-> FindFrom(cs, search_conditions_, 1, <<>>)]

\* The loops of _find_contacts_by_all_fields from contact i on: a contact is
\* appended when `search` is in the lower() of one of its values and it is not
\* in the list yet.
RECURSIVE FindAllFrom(_, _, _, _)
FindAllFrom(cs, search, i, found_contacts_) ==
    IF i > Len(cs) THEN found_contacts_
    ELSE FindAllFrom(cs, search, i + 1,
             IF /\ \E k \in 1..Len(contact_fields) :
                       IsSubstring(search, Lower(cs[i][contact_fields[k]].s))
                /\ ~Contains(found_contacts_, cs[i])
             THEN Append(found_contacts_, cs[i]) ELSE found_contacts_)

\* _find_contacts_by_all_fields: [ok, found]; ok is FALSE when some value of
\* some contact has no lower() (AttributeError): every value of every contact
\* is visited, the index first.
find_contacts_by_all_fields(cs, search) ==
    IF \E i \in 1..Len(cs) : \E k \in 1..Len(contact_fields) :
           ~HasLower(cs[i][contact_fields[k]])
    THEN [ok |-> FALSE, found |-> <<>>]
    ELSE [ok |-> TRUE, found |-> FindAllFrom(cs, search, 1, <<>>)]

\* int(contact.index)
IndexInt(c) == IF c.index.ty = "int" THEN c.index.n ELSE ToInt(c.index.s)

\* ConsoleVisitCardFormatter.print_contacts with paginate: the first card at
\* position >= i after which it pauses (int(contact.index) < contact_count),
\* 0 when it prints to the end without a pause.
NextCardPause(cs, i) ==
    IF \E k \in i..Len(cs) : IndexInt(cs[k]) < Len(cs)
    THEN CHOOSE k \in i..Len(cs) :
             /\ IndexInt(cs[k]) < Len(cs)
             /\ \A m \in i..(k - 1) : ~(IndexInt(cs[m]) < Len(cs))
    ELSE 0

(***************************************************************************)
(* What the user may type at each prompt (small sets of lines).            *)
(***************************************************************************)
CommandInputs ==
    {<<"p">>, <<"P">>, <<"cyr_z">>, <<"a">>, <<"cyr_f">>, <<"s">>, <<"cyr_y">>,
     <<"c">>, <<"cyr_s">>, <<"d">>, <<"cyr_v">>, <<"f">>, <<"cyr_a">>,
     <<"q">>, <<"cyr_j">>, <<"x">>, <<>>}

IndexInputs == {<<>>, <<"0">>, <<"1">>, <<"2">>, <<"3">>, <<"x">>, <<"sup2">>}

ConfirmInputs ==
    {<<"n">>, <<"cyr_n">>, <<"cyr_n", "cyr_e", "cyr_t">>, <<"n", "o">>,
     <<"y">>, <<"Y">>, <<"cyr_d">>, <<"cyr_d", "cyr_a">>, <<"y", "e", "s">>,
     <<"x">>, <<>>}

FindMenuInputs == {<<>>, <<"1">>, <<"2">>, <<"3">>, <<"x">>}

FieldLineInputs ==
    {<<>>, <<"0">>, <<"1">>, <<"2">>, <<"3">>, <<"2", " ", "3">>, <<"3", " ", "0">>,
     <<"7">>, <<"8">>, <<"x">>, <<"2", " ", "x">>, <<"sup2">>}

SearchTextInputs == {<<>>, <<"a">>, <<"A">>, <<"1">>}

PauseInputs == {<<>>, <<"q">>, <<"x">>}

PageSizeInputs ==
    {<<>>, <<"1">>, <<"2">>, <<"3">>, <<"1", "0", "0">>, <<"1", "0", "1">>, <<"0">>,
     <<"x">>, <<"sup2">>}

TablePauseInputs == {<<>>, <<"q">>, <<"x">>, <<"5">>, <<"sup2">>}

\* The lines typed for a field of a contact, by field.
FieldInputs(title_en) ==
    CASE title_en = "last_name" -> {<<>>, <<"-", "-", "-">>, <<"a">>}
      [] title_en = "name" -> {<<>>, <<"-", "-", "-">>, <<"A", ",">>}
      [] OTHER -> {<<>>}

\* The files the program may find at start: none, and files written by
\* save_all in an earlier session.
StoredContact(k, ln) == [Contact(IntVal(k)) EXCEPT !.last_name = StrVal(ln)]

InitialFiles ==
    {NoFile, save_all(<<>>), save_all(<<StoredContact(1, <<"a">>)>>)}

(***************************************************************************)
(* What the formatters print: one item per contact.                        *)
(***************************************************************************)
\* _print_card: the card of a contact; its counter line reads
\* str(contact.index) / str(contact_count).
Card(c, contact_count) ==
    [kind |-> "card", index |-> PyStr(c.index), count |-> contact_count]

\* One row of the table: row[0] is the index of the contact.
Row(c) == [kind |-> "row", index |-> PyStr(c.index), count |-> 0]

\* What the formatter fmt prints for the contact c of a list of n contacts.
Item(fmt, c, n) == IF fmt = "Table" THEN Row(c) ELSE Card(c, n)

\* The pause test of ConsoleTableFormatter.print_contacts after row k, without
\* the test of the last row.
TablePauseAtAnyMultiple(cs, k, page_size_, paginate) ==
    /\ paginate
    /\ IndexInt(cs[k]) % page_size_ = 0

\* The pause test of ConsoleTableFormatter.print_contacts after row k.
TablePauseAt(cs, k, page_size_, paginate) ==
    /\ paginate
    /\ IndexInt(cs[k]) % page_size_ = 0
    /\ IndexInt(cs[k]) # Len(cs)

\* The first row at position >= i after which the table pauses, 0 when it
\* prints to the end without a pause.
TableNextPause(cs, i, page_size_, paginate) ==
    IF \E k \in i..Len(cs) : TablePauseAt(cs, k, page_size_, paginate)
    THEN CHOOSE k \in i..Len(cs) :
             /\ TablePauseAt(cs, k, page_size_, paginate)
             /\ \A m \in i..(k - 1) : ~TablePauseAt(cs, m, page_size_, paginate)
    ELSE 0

\* The first position >= i after which the formatter fmt pauses, 0 when none.
NextPause(fmt, cs, i, page_size_, paginate) ==
    IF fmt = "Table" THEN TableNextPause(cs, i, page_size_, paginate)
    ELSE IF paginate THEN NextCardPause(cs, i)
    ELSE 0

\* The items printed for the contacts at positions i..s of cs.
Items(fmt, cs, i, s) ==
    [j \in 1..(s - i + 1) |-> Item(fmt, cs[i + j - 1], Len(cs))]

(***************************************************************************)
(* State                                                                   *)
(***************************************************************************)
VARIABLES
    file,                  \* the text of pb.csv
    contacts,              \* Phonebook._contacts
    last_index,            \* Phonebook._last_index
    formatter,             \* Phonebook._formatter: "Table" or "VisitCard"
    pc,                    \* the prompt the program waits at
    flow,                  \* the command being served: "", "list", "add", "edit",
                           \* "delete", "search"
    pos,                   \* position in contacts of the contact in hand
    field,                 \* key of field_map of the next field asked
    contact,               \* the local `contact` of _delete_contact
    answer,                \* the local `answer` (or `data`) of the prompt last answered
    search_field_indexes,  \* fields still to ask a search text for
    search_conditions,     \* the SearchConditions entered
    found_contacts,        \* the result of the last search
    page_size,             \* the local `page_size` of the table while it asks, else 0
    out,                   \* the rows or cards printed since the menu
    error,                 \* the uncaught exception, "" when none
    entry                  \* history: the store as the menu last showed it

vars == <<file, contacts, last_index, formatter, pc, flow, pos, field, contact,
          answer, search_field_indexes, search_conditions, found_contacts,
          page_size, out, error, entry>>

\* The store as it is now.
Snapshot == [contacts |-> contacts, file |-> file, last_index |-> last_index]

NoContact == Contact(NoneVal)

\* No command is being served.
NoLocals ==
    /\ flow = ""
    /\ pos = 0
    /\ field = 0
    /\ contact = NoContact
    /\ answer = <<>>
    /\ search_field_indexes = <<>>
    /\ search_conditions = <<>>
    /\ found_contacts = <<>>
    /\ page_size = 0
    /\ out = <<>>
    /\ error = ""

\* Phonebook.__init__ over CsvFileStorage.__init__.
Init ==
    /\ \E f \in InitialFiles :
         /\ file = init_storage(f)
         /\ contacts = read_all(init_storage(f)).contacts
         /\ last_index = Len(read_all(init_storage(f)).contacts)
    /\ formatter = "Table"
    /\ pc = "menu"
    /\ NoLocals
    /\ entry = Snapshot

\* An exception nobody catches ends the program.
Raise(e) ==
    /\ pc' = "crashed"
    /\ error' = e

\* Control reaches line 316, "press Enter to show the menu".
ToEnter ==
    /\ pc' = "enter"
    /\ error' = error

Locals == <<flow, pos, field, contact, search_field_indexes, search_conditions,
            found_contacts, page_size, out>>

Store == <<file, contacts, last_index>>

\* print_contacts of the formatter from position i of cs on: the items up to
\* the next pause, or to the end.
Render(cs, i, page_size_, paginate) ==
    LET k == NextPause(formatter, cs, i, page_size_, paginate)
    IN  IF k = 0
        THEN /\ out' = out \o Items(formatter, cs, i, Len(cs))
             /\ pos' = 0
             /\ page_size' = 0
             /\ ToEnter
        ELSE /\ out' = out \o Items(formatter, cs, i, k)
             /\ pos' = k
             /\ page_size' = page_size_
             /\ pc' = IF formatter = "Table" THEN "table_pause" ELSE "card_pause"
             /\ error' = error

\* The start of print_contacts of the formatter: the table asks for the page
\* size when the list is longer than its page_size, whatever paginate is.
StartPrint(cs, paginate) ==
    IF formatter = "Table" /\ Len(cs) > DEFAULT_PAGE_SIZE
    THEN /\ pc' = "page_size"
         /\ page_size' = DEFAULT_PAGE_SIZE
         /\ pos' = 0
         /\ out' = out
         /\ error' = error
    ELSE Render(cs, 1, IF formatter = "Table" THEN DEFAULT_PAGE_SIZE ELSE 1, paginate)

\* The list print_contacts was called with: the search results, else the
\* whole list; only the whole list is paginated.
Printed == IF flow = "search" THEN found_contacts ELSE contacts

(***************************************************************************)
(* Phonebook.start: the main menu.  Every action below is one prompt of    *)
(* the program answered by one line of input.                              *)
(***************************************************************************)
\* 'p': formatter.print_contacts(self._contacts), up to its first prompt.
PrintContacts ==
    /\ pc = "menu"
    /\ \E t \in CommandInputs :
         /\ Lower(t) \in {<<"p">>, <<"cyr_z">>}
         /\ answer' = Lower(t)
    /\ flow' = "list"
    /\ StartPrint(contacts, TRUE)
    /\ UNCHANGED <<Store, formatter, entry, field, contact, search_field_indexes,
                   search_conditions, found_contacts>>

\* The pause of ConsoleVisitCardFormatter.print_contacts after card `pos`.
CardPause ==
    /\ pc = "card_pause"
    /\ \E t \in PauseInputs :
         /\ answer' = t
         /\ IF t = <<"q">>
            THEN ToEnter /\ pos' = 0 /\ page_size' = 0 /\ out' = out
            ELSE Render(Printed, pos + 1, page_size, TRUE)
    /\ UNCHANGED <<Store, formatter, entry, flow, field, contact, search_field_indexes,
                   search_conditions, found_contacts>>

\* _get_page_size, one input line, and the rows up to the first pause.
PageSize ==
    /\ pc = "page_size"
    /\ \E t \in PageSizeInputs :
         LET r == get_answer(t, Range(1, 101))
         IN  /\ answer' = t
             /\ CASE r.res = "ValueError" ->
                       Raise("ValueError") /\ UNCHANGED <<pos, page_size, out>>
                  [] r.res = "again" ->
                       UNCHANGED <<pc, error, pos, page_size, out>>
                  [] OTHER ->
                       Render(Printed, 1,
                              IF Falsy(r.val) THEN DEFAULT_PAGE_SIZE ELSE r.val.n,
                              flow # "search")
    /\ UNCHANGED <<Store, formatter, entry, flow, field, contact, search_field_indexes,
                   search_conditions, found_contacts>>

\* The pause of ConsoleTableFormatter.print_contacts after row `pos`.
TablePause ==
    /\ pc = "table_pause"
    /\ \E t \in TablePauseInputs :
         LET r == get_answer(t, {StrVal(<<>>), StrVal(<<"q">>)})
         IN  /\ answer' = t
             /\ CASE r.res = "ValueError" ->
                       Raise("ValueError") /\ UNCHANGED <<pos, page_size, out>>
                  [] r.res = "again" ->
                       UNCHANGED <<pc, error, pos, page_size, out>>
                  [] OTHER ->
                       IF r.val = StrVal(<<"q">>)
                       THEN ToEnter /\ pos' = 0 /\ page_size' = 0 /\ out' = out
                       ELSE Render(Printed, pos + 1, page_size, TRUE)
    /\ UNCHANGED <<Store, formatter, entry, flow, field, contact, search_field_indexes,
                   search_conditions, found_contacts>>

\* The new contact numbered with the count itself (the + 1 forgotten).
new_contact_same_index(last_index_) == Contact(IntVal(last_index_))

\* Contact(index=self._last_index + 1)
new_contact(last_index_) == Contact(IntVal(last_index_ + 1))

\* 'a': _add_contact up to the first prompt of _input_contact_data; the new
\* contact is already in the list.
AddContact ==
    /\ pc = "menu"
    /\ Len(contacts) < MaxContacts
    /\ \E t \in CommandInputs :
         /\ Lower(t) \in {<<"a">>, <<"cyr_f">>}
         /\ answer' = Lower(t)
    /\ contacts' = Append(contacts, new_contact(last_index))
    /\ pos' = Len(contacts) + 1
    /\ field' = 2
    /\ flow' = "add"
    /\ pc' = "input_data"
    /\ UNCHANGED <<file, last_index, formatter, entry, contact, search_field_indexes,
                   search_conditions, found_contacts, page_size, out, error>>

\* The value _input_contact_data leaves in a field with '---' taken as text.
NewValueKeepingDashes(old, data) ==
    IF data = <<>> THEN old
    ELSE StrVal(data)

\* The value _input_contact_data leaves in a field for the input line data.
NewValue(old, data) ==
    IF data = <<>> THEN old
    ELSE IF data = <<"-", "-", "-">> THEN StrVal(<<>>)
    ELSE StrVal(data)

\* The count after an Add that forgets to count the new contact.
last_index_not_counted(last_index_) == last_index_

\* self._last_index += 1
last_index_after_add(last_index_) == last_index_ + 1

\* One prompt of _input_contact_data; after the last field, the rest of
\* _add_contact (count, append to the file) or of _change_contact (rewrite).
InputContactData ==
    /\ pc = "input_data"
    /\ \E data \in FieldInputs(field_map[field].title_en) :
         LET f == field_map[field].title_en
             cs == [contacts EXCEPT ![pos][f] = NewValue(@, data)]
         IN  /\ contacts' = cs
             /\ answer' = data
             /\ IF field < 7
                THEN /\ field' = field + 1
                     /\ UNCHANGED <<pc, pos, file, last_index, error>>
                ELSE /\ field' = 0
                     /\ pos' = 0
                     /\ ToEnter
                     /\ IF flow = "add"
                        THEN /\ last_index' = last_index_after_add(last_index)
                             /\ file' = add_one(file, cs[pos])
                        ELSE /\ last_index' = last_index
                             /\ file' = save_all(cs)
    /\ UNCHANGED <<formatter, entry, flow, contact, search_field_indexes,
                   search_conditions, found_contacts, page_size, out>>

\* 'c' and 'd': _change_contact and _delete_contact start with the index prompt.
ChangeOrDelete ==
    /\ pc = "menu"
    /\ \E t \in CommandInputs :
         /\ Lower(t) \in {<<"c">>, <<"cyr_s">>, <<"d">>, <<"cyr_v">>}
         /\ answer' = Lower(t)
         /\ flow' = IF Lower(t) \in {<<"c">>, <<"cyr_s">>} THEN "edit" ELSE "delete"
    /\ pc' = "get_index"
    /\ UNCHANGED <<Store, formatter, entry, pos, field, contact, search_field_indexes,
                   search_conditions, found_contacts, page_size, out, error>>

\* _get_contact_by_index, one input line; then the preview of the contact,
\* print_contacts([contact], paginate=False), which asks nothing, and the
\* first prompt of the flow.
GetContactByIndex ==
    /\ pc = "get_index"
    /\ \E t \in IndexInputs :
         LET r == get_answer(t, Range(1, last_index + 1))
         IN  /\ answer' = t
             /\ CASE r.res = "ValueError" ->
                       Raise("ValueError") /\ UNCHANGED <<pos, field, contact, out>>
                  [] r.res = "again" ->
                       UNCHANGED <<pc, error, pos, field, contact, out>>
                  [] OTHER ->
                       IF Falsy(r.val)
                       THEN ToEnter /\ UNCHANGED <<pos, field, contact, out>>
                       ELSE IF r.val.n > Len(contacts)
                       THEN Raise("IndexError") /\ UNCHANGED <<pos, field, contact, out>>
                       ELSE /\ out' = Items(formatter, <<contacts[r.val.n]>>, 1, 1)
                            /\ IF flow = "edit"
                               THEN /\ pc' = "input_data"
                                    /\ pos' = r.val.n
                                    /\ field' = 2
                                    /\ UNCHANGED <<contact, error>>
                               ELSE /\ pc' = "confirm"
                                    /\ contact' = contacts[r.val.n]
                                    /\ UNCHANGED <<pos, field, error>>
    /\ UNCHANGED <<Store, formatter, entry, flow, search_field_indexes,
                   search_conditions, found_contacts, page_size>>

NoAnswers == {<<"n">>, <<"cyr_n">>, <<"cyr_n", "cyr_e", "cyr_t">>, <<"n", "o">>}

YesAnswers == {<<"y">>, <<"cyr_d">>, <<"cyr_d", "cyr_a">>, <<"y", "e", "s">>}

\* The answers that end the while loop of _delete_contact.
LoopEndAnswers == {<<"n">>, <<"cyr_n">>, <<"y">>, <<"cyr_d">>}

\* One pass of the confirmation loop of _delete_contact.
ConfirmDelete ==
    /\ pc = "confirm"
    /\ \E t \in ConfirmInputs :
         LET a == Lower(t)
             k == FirstEqual(contacts, contact)
             cs == update_indexes(RemoveAt(contacts, k))
         IN  /\ answer' = a
             /\ IF a \in NoAnswers
                THEN ToEnter /\ UNCHANGED Store
                ELSE IF a \in YesAnswers
                THEN IF k = 0
                     THEN Raise("ValueError") /\ UNCHANGED Store
                     ELSE /\ contacts' = cs
                          /\ last_index' = Len(cs)
                          /\ file' = save_all(cs)
                          /\ IF a \in LoopEndAnswers
                             THEN ToEnter
                             ELSE UNCHANGED <<pc, error>>
                ELSE UNCHANGED <<pc, error, Store>>
    /\ UNCHANGED <<formatter, entry, flow, pos, field, contact, search_field_indexes,
                   search_conditions, found_contacts, page_size, out>>

\* 's': _print_find_menu shows the search menu.
FindMenu ==
    /\ pc = "menu"
    /\ \E t \in CommandInputs :
         /\ Lower(t) \in {<<"s">>, <<"cyr_y">>}
         /\ answer' = Lower(t)
    /\ pc' = "find_menu"
    /\ flow' = "search"
    /\ UNCHANGED <<Store, formatter, entry, pos, field, contact, search_field_indexes,
                   search_conditions, found_contacts, page_size, out, error>>

\* The mode _print_find_menu runs for the value get_answer returned.
FindMode(v) == IF v = StrVal(<<"1">>) THEN "all_fields" ELSE "field_indexes"

\* The prompt of _print_find_menu, one input line.
FindMenuAnswer ==
    /\ pc = "find_menu"
    /\ \E t \in FindMenuInputs :
         LET r == get_answer(t, {IntVal(1), IntVal(2)})
         IN  /\ answer' = t
             /\ CASE r.res = "ValueError" -> Raise("ValueError")
                  [] r.res = "again" -> UNCHANGED <<pc, error>>
                  [] OTHER -> IF Falsy(r.val)
                              THEN ToEnter
                              ELSE pc' = FindMode(r.val) /\ error' = error
    /\ UNCHANGED <<Store, formatter, entry, Locals>>

\* field_map[field] of _get_search_conditions for the next field asked.
KnownField(k) == k \in DOMAIN field_map

\* _get_field_indexes, one input line, and the start of _get_search_conditions.
GetFieldIndexes ==
    /\ pc = "field_indexes"
    /\ \E t \in FieldLineInputs :
         LET r == get_field_indexes(t)
         IN  /\ answer' = t
             /\ CASE r.res = "ValueError" ->
                       Raise("ValueError") /\ UNCHANGED search_field_indexes
                  [] r.res = "again" ->
                       UNCHANGED <<pc, error, search_field_indexes>>
                  [] OTHER ->
                       IF r.val = <<>>
                       THEN ToEnter /\ UNCHANGED search_field_indexes
                       ELSE /\ search_field_indexes' = r.val
                            /\ IF KnownField(r.val[1])
                               THEN pc' = "search_text" /\ error' = error
                               ELSE Raise("KeyError")
    /\ UNCHANGED <<Store, formatter, entry, flow, pos, field, contact,
                   search_conditions, found_contacts, page_size, out>>

\* _print_search_results: nothing is printed for no result, else
\* print_contacts(contacts, paginate=False) of the formatter.
PrintSearchResults(found) ==
    IF found = <<>>
    THEN ToEnter /\ UNCHANGED <<pos, page_size, out>>
    ELSE StartPrint(found, FALSE)

\* One prompt of _get_search_conditions; after the last one the search and
\* _print_search_results.
SearchText ==
    /\ pc = "search_text"
    /\ \E q \in SearchTextInputs :
         LET conds == Append(search_conditions,
                        [field |-> field_map[Head(search_field_indexes)].title_en,
                         text |-> q])
             rest == Tail(search_field_indexes)
             r == find_contacts_by_search_conditions(contacts, conds)
         IN  /\ search_conditions' = conds
             /\ search_field_indexes' = rest
             /\ IF rest # <<>>
                THEN /\ found_contacts' = found_contacts
                     /\ UNCHANGED <<pos, page_size, out>>
                     /\ IF KnownField(Head(rest))
                        THEN UNCHANGED <<pc, error>>
                        ELSE Raise("KeyError")
                ELSE IF r.ok
                THEN /\ found_contacts' = r.found
                     /\ PrintSearchResults(r.found)
                ELSE /\ found_contacts' = found_contacts
                     /\ UNCHANGED <<pos, page_size, out>>
                     /\ Raise("AttributeError")
    /\ UNCHANGED <<Store, formatter, entry, flow, field, contact, answer>>

\* _find_contacts_by_all_fields, its one input line, and
\* _print_search_results.
FindContactsByAllFields ==
    /\ pc = "all_fields"
    /\ \E q \in SearchTextInputs :
         LET r == find_contacts_by_all_fields(contacts, Lower(q))
         IN  /\ answer' = Lower(q)
             /\ IF r.ok
                THEN /\ found_contacts' = r.found
                     /\ PrintSearchResults(r.found)
                ELSE /\ found_contacts' = found_contacts
                     /\ UNCHANGED <<pos, page_size, out>>
                     /\ Raise("AttributeError")
    /\ UNCHANGED <<Store, formatter, entry, flow, field, contact, search_field_indexes,
                   search_conditions>>

\* 'f': _change_formatter.
ChangeFormatter ==
    /\ pc = "menu"
    /\ \E t \in CommandInputs :
         /\ Lower(t) \in {<<"f">>, <<"cyr_a">>}
         /\ answer' = Lower(t)
    /\ formatter' = IF formatter = "VisitCard" THEN "Table" ELSE "VisitCard"
    /\ ToEnter
    /\ UNCHANGED <<Store, entry, Locals>>

\* 'q': exit().
Quit ==
    /\ pc = "menu"
    /\ \E t \in CommandInputs :
         /\ Lower(t) \in {<<"q">>, <<"cyr_j">>}
         /\ answer' = Lower(t)
    /\ pc' = "exit"
    /\ UNCHANGED <<Store, formatter, entry, Locals, error>>

KnownCommands ==
    {<<"p">>, <<"cyr_z">>, <<"a">>, <<"cyr_f">>, <<"s">>, <<"cyr_y">>, <<"c">>,
     <<"cyr_s">>, <<"d">>, <<"cyr_v">>, <<"f">>, <<"cyr_a">>, <<"q">>, <<"cyr_j">>}

\* Any other command: 'wrong command', and the menu again.
WrongCommand ==
    /\ pc = "menu"
    /\ \E t \in CommandInputs :
         /\ Lower(t) \notin KnownCommands
         /\ answer' = Lower(t)
    /\ UNCHANGED <<Store, formatter, entry, pc, Locals, error>>

\* Line 316: any line brings the menu back; the locals of the flow are gone.
Enter ==
    /\ pc = "enter"
    /\ pc' = "menu"
    /\ flow' = ""
    /\ pos' = 0
    /\ field' = 0
    /\ contact' = NoContact
    /\ answer' = <<>>
    /\ search_field_indexes' = <<>>
    /\ search_conditions' = <<>>
    /\ found_contacts' = <<>>
    /\ page_size' = 0
    /\ out' = <<>>
    /\ entry' = Snapshot
    /\ UNCHANGED <<Store, formatter, error>>

\* The program within MaxContacts contacts.  A table of at most
\* DEFAULT_PAGE_SIZE rows asks nothing, so PageSize and TablePause have no
\* step here, and the all-fields search is never started from the menu:
\* those are the steps of SpecPaging and SpecAllFields below.
Next ==
    \/ PrintContacts
    \/ CardPause
    \/ AddContact
    \/ InputContactData
    \/ ChangeOrDelete
    \/ GetContactByIndex
    \/ ConfirmDelete
    \/ FindMenu
    \/ FindMenuAnswer
    \/ GetFieldIndexes
    \/ SearchText
    \/ ChangeFormatter
    \/ Quit
    \/ WrongCommand
    \/ Enter

Spec == Init /\ [][Next]_vars

(***************************************************************************)
(* The all-fields search on its own.  _print_find_menu never starts it     *)
(* (line 355 compares the int answer with '1'), so it is applied here to   *)
(* the lists the catalog can hold: contacts numbered 1..n whose index is   *)
(* a str when read from the file and an int when added or renumbered.      *)
(***************************************************************************)
CatalogRecord(k, ty, ln, ph) ==
    [Contact(IF ty = "int" THEN IntVal(k) ELSE StrVal(IntToText(k)))
        EXCEPT !.last_name = StrVal(ln), !.private_phone = StrVal(ph)]

CatalogLists ==
    UNION {{[i \in 1..n |-> CatalogRecord(i, ty[i], ln[i], ph[i])] :
               ty \in [1..n -> {"int", "str"}],
               ln \in [1..n -> {<<>>, <<"A">>}],
               ph \in [1..n -> {<<>>, <<"1">>}]} : n \in 0..MaxContacts}

InitAllFields ==
    /\ contacts \in CatalogLists
    /\ file = save_all(contacts)
    /\ last_index = Len(contacts)
    /\ formatter = "Table"
    /\ pc = "all_fields"
    /\ flow = "search"
    /\ pos = 0
    /\ field = 0
    /\ contact = NoContact
    /\ answer = <<>>
    /\ search_field_indexes = <<>>
    /\ search_conditions = <<>>
    /\ found_contacts = <<>>
    /\ page_size = 0
    /\ out = <<>>
    /\ error = ""
    /\ entry = Snapshot

NextAllFields ==
    \/ FindContactsByAllFields
    \/ Enter

SpecAllFields == InitAllFields /\ [][NextAllFields]_vars

(***************************************************************************)
(* The start of the program on its own: Phonebook.__init__ reads whatever  *)
(* file it finds, well formed or not.                                      *)
(***************************************************************************)
\* One line of a file: the fields joined by commas.
FileLine(fields) == Join(<<",">>, fields) \o <<"\r", "\n">>

\* A data line of n fields for contact k: its index, 'a', and empty fields.
FileRow(k, n) ==
    FileLine([j \in 1..n |-> IF j = 1 THEN IntToText(k)
                             ELSE IF j = 2 THEN <<"a">> ELSE <<>>])

\* The header lines found: the seven titles, the titles without the last
\* one, and the titles with one more column.
FileHeaders ==
    {FileLine(csv_fields),
     FileLine(SubSeq(csv_fields, 1, Len(csv_fields) - 1)),
     FileLine(Append(csv_fields, <<"x">>))}

\* The files found at start: none, a header with up to MaxContacts data
\* lines of six, seven or eight fields each, and the file two Adds leave.
StartFiles ==
    {NoFile,
     add_one(add_one(WriteHeader, StoredContact(1, <<"a">>)), StoredContact(2, <<"a">>))}
    \cup UNION {{h \o Concat([i \in 1..m |-> FileRow(i, w[i])]) :
                    h \in FileHeaders,
                    w \in [1..m -> (Len(csv_fields) - 1)..(Len(csv_fields) + 1)]} :
                m \in 0..MaxContacts}

InitReadAll ==
    /\ file \in StartFiles
    /\ contacts = <<>>
    /\ last_index = 0
    /\ formatter = "Table"
    /\ pc = "start"
    /\ NoLocals
    /\ entry = Snapshot

\* main: CsvFileStorage.__init__ and Phonebook.__init__, up to the menu.
Startup ==
    /\ pc = "start"
    /\ LET f == init_storage(file)
           r == read_all(f)
       IN  /\ file' = f
           /\ IF r.ok
              THEN /\ contacts' = r.contacts
                   /\ last_index' = Len(r.contacts)
                   /\ entry' = [contacts |-> r.contacts, file |-> f,
                                last_index |-> Len(r.contacts)]
                   /\ pc' = "menu"
                   /\ error' = error
              ELSE /\ Raise("KeyError")
                   /\ UNCHANGED <<contacts, last_index, entry>>
    /\ UNCHANGED <<formatter, Locals, answer>>

NextReadAll == Startup

SpecReadAll == InitReadAll /\ [][NextReadAll]_vars

(***************************************************************************)
(* Listing and searching lists longer than DEFAULT_PAGE_SIZE: the program  *)
(* with a catalog of up to MaxListed contacts, as read from the file (str  *)
(* index) or as renumbered by a Delete (int index), and no command that    *)
(* changes it.                                                             *)
(***************************************************************************)
PagingLists ==
    {[i \in 1..n |-> CatalogRecord(i, ty, <<"a">>, <<>>)] :
        n \in 0..MaxListed, ty \in {"int", "str"}}

InitPaging ==
    /\ contacts \in PagingLists
    /\ file = save_all(contacts)
    /\ last_index = Len(contacts)
    /\ formatter \in {"Table", "VisitCard"}
    /\ pc = "menu"
    /\ NoLocals
    /\ entry = Snapshot

NextPaging ==
    \/ PrintContacts
    \/ PageSize
    \/ TablePause
    \/ CardPause
    \/ FindMenu
    \/ FindMenuAnswer
    \/ GetFieldIndexes
    \/ SearchText
    \/ Enter

SpecPaging == InitPaging /\ [][NextPaging]_vars

(***************************************************************************)
(* Properties                                                              *)
(***************************************************************************)
\* A contact without its index.
NonIndex(c) == [c EXCEPT !.index = NoneVal]

\* Two lists of contacts with the same text in every field.
SameText(a, b) ==
    /\ Len(a) = Len(b)
    /\ \A i \in 1..Len(a) : \A k \in 1..7 :
         PyStr(a[i][contact_fields[k]]) = PyStr(b[i][contact_fields[k]])

\* A Delete, Add or Edit flow has just ended and line 316 waits for Enter.
Ended(f) == pc = "enter" /\ flow = f

\* C1: whenever a command has completed and control is back at the main
\* menu, the record at list position i carries index i, so the indexes are
\* exactly 1..N without gaps or duplicates.
C1_DenseIndexes ==
    pc \in {"menu", "enter"} =>
        \A i \in 1..Len(contacts) : IndexInt(contacts[i]) = i

\* C1 witness: a confirmed Delete of the first of three records has ended.
C1_Witness ==
    /\ Ended("delete")
    /\ answer \in YesAnswers
    /\ Len(entry.contacts) = 3
    /\ contact = entry.contacts[1]
    /\ Len(contacts) = 2

\* C2: a confirmed Delete of the record at index k removes exactly that
\* record: the list that remains is the list the command found without its
\* k-th record, in the same order, non-index fields unchanged, indexes 1..N-1.
C2_Claim ==
    (Ended("delete") /\ answer \in YesAnswers) =>
        \E k \in 1..Len(entry.contacts) :
            /\ entry.contacts[k] = contact
            /\ LET rest == RemoveAt(entry.contacts, k)
               IN  /\ Len(contacts) = Len(rest)
                   /\ \A i \in 1..Len(contacts) :
                        /\ NonIndex(contacts[i]) = NonIndex(rest[i])
                        /\ IndexInt(contacts[i]) = i

\* C3: every completed Add leaves the records it found as they were and
\* appends one record whose index is the count before the Add plus one; the
\* count grows by exactly one (so on an emptied store the index is 1).
C3_AddAssignsNextIndex ==
    Ended("add") =>
        /\ Len(contacts) = Len(entry.contacts) + 1
        /\ last_index = entry.last_index + 1
        /\ SubSeq(contacts, 1, Len(entry.contacts)) = entry.contacts
        /\ contacts[Len(contacts)].index = IntVal(Len(entry.contacts) + 1)

\* C3 witness: an Add has completed on a store holding two records.
C3_Witness ==
    /\ Ended("add")
    /\ Len(entry.contacts) = 2
    /\ contacts[3].index = IntVal(3)

\* C3 witness on the empty store: the record gets index 1.
C3_WitnessEmpty ==
    /\ Ended("add")
    /\ entry.contacts = <<>>
    /\ contacts[1].index = IntVal(1)

\* No field of any record holds a character csv treats specially.
NoDelimiters(cs) ==
    \A i \in 1..Len(cs) : \A k \in 1..7 : ~NeedsQuote(PyStr(cs[i][contact_fields[k]]))

\* C4: at the main menu read_all of the file yields the in-memory records:
\* as many, in the same order, with the same text in all seven fields.
\* Stated for records without csv delimiters in their fields (the file
\* format does not escape those), where it must hold all the more.
C4_Claim ==
    (pc = "menu" /\ NoDelimiters(contacts)) =>
        /\ read_all(file).ok
        /\ SameText(read_all(file).contacts, contacts)

\* C5: save_all(records) followed by read_all() returns a list equal
\* field for field to records, the index included, for every list the
\* program holds when a command has completed.
C5_Claim ==
    pc \in {"menu", "enter"} =>
        read_all(save_all(contacts)) = [ok |-> TRUE, contacts |-> contacts]

\* C6: no input drives the program into an uncaught exception.
C6_Claim == pc # "crashed"

\* C7: in the confirmation prompt of Delete every yes token removes the
\* record, rewrites the store and ends the flow without asking again.
C7_Claim ==
    [][(pc = "confirm" /\ answer' \in YesAnswers) =>
           /\ pc' = "enter"
           /\ Len(contacts') = Len(contacts) - 1
           /\ file' = save_all(contacts')]_vars

\* C8: a Delete flow that ends by a no token, or by the empty cancel of the
\* index prompt, leaves records, count and file as the command found them.
C8_Claim ==
    (Ended("delete") /\ (answer \in NoAnswers \/ answer = <<>>)) =>
        Snapshot = entry

\* C9: in the search menu the answer 1 runs the all-fields search.
C9_Claim ==
    [][(pc = "find_menu" /\ answer' = <<"1">>) => pc' = "all_fields"]_vars

\* The records for which every condition's query is a case-insensitive
\* substring of the text of the record's field.
ConjunctiveMatches(cs, conds) ==
    SelectSeq(cs, LAMBDA c : \A j \in 1..Len(conds) :
        IsSubstring(Lower(conds[j].text), Lower(PyStr(c[conds[j].field]))))

\* C10: once the last search text of a selected-fields search is entered,
\* the search returns exactly the records matching every condition, each
\* once and in list order.
C10_Claim ==
    (search_conditions # <<>> /\ search_field_indexes = <<>>) =>
        /\ pc = "enter"
        /\ found_contacts = ConjunctiveMatches(contacts, search_conditions)


\* The contacts of cs that hold q, whatever the case, in the text of at least
\* one of their seven fields, each once and in the order of cs.
DisjunctiveMatches(cs, q) ==
    SelectSeq(cs, LAMBDA c : \E k \in 1..Len(contact_fields) :
                     IsSubstring(Lower(q), Lower(PyStr(c[contact_fields[k]]))))

\* C11: the all-fields search returns, for every list the catalog can hold
\* and every query, exactly the contacts with the query as a
\* case-insensitive substring of the text of at least one of the seven
\* fields, the index included, each once.
C11_Claim ==
    (flow = "search" /\ pc \in {"enter", "crashed", "page_size"}) =>
        /\ pc # "crashed"
        /\ found_contacts = DisjunctiveMatches(contacts, answer)


\* C12: every input line of an Edit changes at most the field asked for, of
\* the contact chosen: an empty line keeps its value, '---' makes it the
\* empty text, any other line replaces it; the index of the contact, the
\* count, the order and every other contact stay, and after the last field
\* the file is the whole list rewritten.
C12_EditFrame ==
    [][(pc = "input_data" /\ flow = "edit") =>
          LET f == field_map[field].title_en
              data == answer'
          IN  /\ f # "index"
              /\ Len(contacts') = Len(contacts)
              /\ \A i \in 1..Len(contacts) : i # pos => contacts'[i] = contacts[i]
              /\ \A g \in DOMAIN contacts[pos] :
                     g # f => contacts'[pos][g] = contacts[pos][g]
              /\ contacts'[pos][f] =
                     IF data = <<>> THEN contacts[pos][f]
                     ELSE IF data = <<"-", "-", "-">> THEN StrVal(<<>>)
                     ELSE StrVal(data)
              /\ last_index' = last_index
              /\ IF pc' = "enter"
                 THEN file' = save_all(contacts')
                 ELSE pc' = "input_data" /\ file' = file]_vars

\* An Edit of one of several contacts has ended: '---' cleared its last
\* name, its name was replaced, and the file was rewritten.
C12_Witness ==
    /\ Ended("edit")
    /\ Len(contacts) >= 2
    /\ \E k \in 1..Len(contacts) :
         /\ entry.contacts[k].last_name = StrVal(<<"a">>)
         /\ contacts[k].last_name = StrVal(<<>>)
         /\ entry.contacts[k].name = StrVal(<<>>)
         /\ contacts[k].name = StrVal(<<"A", ",">>)
         /\ \A i \in 1..Len(contacts) : i # k => contacts[i] = entry.contacts[i]
    /\ file = save_all(contacts)

\* A file whose header is not the seven titles or with a data row of fewer
\* or more than seven fields.
Malformed(f) ==
    LET rows == CsvReader(f)
    IN  \/ rows = <<>>
        \/ rows[1] # csv_fields
        \/ \E i \in 2..Len(rows) : Len(rows[i]) # Len(csv_fields)

\* C13: read_all fails, and the program does not start, whenever the header
\* is not the seven titles or a data row has not exactly seven fields; no
\* contact is built from a row of too few or too many fields.
C13_Claim == (pc # "start" /\ Malformed(file)) => pc = "crashed"

\* A token that is the number of a field of field_map.
FieldNumber(tok) ==
    /\ tok # <<>>
    /\ \A i \in 1..Len(tok) : tok[i] \in DigitChars
    /\ ToInt(tok) \in DOMAIN field_map

\* C14: the selected-fields prompt accepts a line exactly when every token is
\* a field number 1..7; any other line repeats the prompt, the empty line
\* returns to the menu, and every accepted number is a key of field_map.
C14_Claim ==
    [][pc = "field_indexes" =>
          LET toks == Split(answer')
          IN  IF toks = <<>> THEN pc' = "enter"
              ELSE IF \A i \in 1..Len(toks) : FieldNumber(toks[i])
              THEN /\ pc' = "search_text"
                   /\ \A i \in 1..Len(search_field_indexes') :
                          KnownField(search_field_indexes'[i])
              ELSE pc' = "field_indexes"]_vars

\* A line that is a number in 1..n.
IndexWithin(t, n) ==
    /\ t # <<>>
    /\ \A i \in 1..Len(t) : t[i] \in DigitChars
    /\ ToInt(t) \in 1..n

\* C15: at the index prompt of Edit and Delete the empty line cancels with
\* nothing changed, a number k in 1..count selects the contact whose index
\* is k, and any other line, numeric or not, is asked again; with no
\* contacts only the empty line leaves the prompt.
C15_Claim ==
    [][pc = "get_index" =>
          /\ UNCHANGED Store
          /\ IF answer' = <<>> THEN pc' = "enter"
             ELSE IF IndexWithin(answer', Len(contacts))
             THEN IF flow = "edit"
                  THEN pc' = "input_data" /\ IndexInt(contacts[pos']) = ToInt(answer')
                  ELSE pc' = "confirm" /\ IndexInt(contact') = ToInt(answer')
             ELSE pc' = "get_index"]_vars

\* A line no prompt accepts and that cancels nothing: numeric for
\* str.isnumeric() and no decimal number.
NeverAccepted(t) == IsNumeric(t) /\ ~IntParses(t)

\* C16: every flow started from the menu comes back to it when its prompts
\* get accepted answers or cancels: an answered prompt leads to the next
\* prompt of the flow or to the pause before the menu, never to the end of
\* the program; the quit command leads to the exit; an unknown command
\* leaves the menu on display with the contacts, the file and the formatter
\* as they were.
C16_Claim ==
    [][/\ (pc = "menu" /\ answer' \in {<<"q">>, <<"cyr_j">>}) => pc' = "exit"
       /\ (pc = "menu" /\ answer' \notin KnownCommands) =>
              (pc' = "menu" /\ UNCHANGED <<Store, formatter>>)
       /\ ~NeverAccepted(answer') =>
              pc' \in {"menu", "enter", "exit", "input_data", "get_index", "confirm",
                       "find_menu", "field_indexes", "search_text", "card_pause",
                       "table_pause", "page_size"}]_vars


\* A pause is due after the row at position j of n rows, p rows a page.
PauseDue(j, p, n) == j % p = 0 /\ j < n

\* One stretch of the table listing with page size p: the rows come in the
\* order of the list, no pause was due after the rows before the last one
\* printed, and the stretch ends at a pause that is due or after the last
\* row of the list.
ListingStretch(p) ==
    /\ Len(out') <= Len(contacts)
    /\ \A j \in 1..Len(out') : out'[j] = Row(contacts[j])
    /\ \A j \in (Len(out) + 1)..(Len(out') - 1) : ~PauseDue(j, p, Len(contacts))
    /\ IF pc' = "table_pause"
       THEN /\ Len(out') > Len(out)
            /\ PauseDue(Len(out'), p, Len(contacts))
            /\ page_size' = p
       ELSE /\ pc' = "enter"
            /\ Len(out') = Len(contacts)

\* C17: the paginated table listing of N contacts with page size p pauses
\* exactly after the rows at the positions p, 2p, ... below N, never after
\* the last row; q at a pause ends the listing with no further row, the
\* other accepted answer (the empty line) goes on with the next row.
C17_TablePauses ==
    [][(formatter = "Table" /\ flow' = "list") =>
          /\ (pc = "menu" /\ pc' # "page_size") => ListingStretch(DEFAULT_PAGE_SIZE)
          /\ (pc = "menu" /\ pc' = "page_size") =>
                 (Len(contacts) > DEFAULT_PAGE_SIZE /\ out' = <<>>)
          /\ (pc = "page_size" /\ answer' = <<>>) => ListingStretch(DEFAULT_PAGE_SIZE)
          /\ (pc = "page_size" /\ IndexWithin(answer', 100)) =>
                 ListingStretch(ToInt(answer'))
          /\ (pc = "table_pause" /\ answer' = <<"q">>) =>
                 (pc' = "enter" /\ out' = out)
          /\ (pc = "table_pause" /\ answer' = <<>>) => ListingStretch(page_size)]_vars

\* A table listing of seven contacts, three a page, was stopped by q at its
\* second pause, after the sixth row.
C17_Witness ==
    /\ Ended("list")
    /\ formatter = "Table"
    /\ Len(contacts) = 7
    /\ answer = <<"q">>
    /\ Len(out) = 6
    /\ \A j \in 1..Len(out) : out[j] = Row(contacts[j])

\* The number of contacts in the sequence being printed: the search result,
\* the one contact previewed by Edit and Delete, else the whole list.
PrintedCount ==
    CASE flow = "search" -> Len(found_contacts)
      [] flow \in {"edit", "delete"} -> 1
      [] OTHER -> Len(entry.contacts)

\* C18: the j-th card the VisitCard formatter prints for a sequence of M
\* contacts shows the counter j out of M.
C18_Claim ==
    \A j \in 1..Len(out) :
        out[j].kind = "card" =>
            /\ out[j].index = IntToText(j)
            /\ out[j].count = PrintedCount

\* C19: the results of a search are printed without a question: from the
\* last search text to the end of the results the program waits for no
\* answer, neither at a pause nor for a page size, however many contacts
\* match.
C19_Claim == flow = "search" => pc \notin {"page_size", "table_pause", "card_pause"}

\* C20: whenever the menu is on display, and at the pause before it,
\* _last_index is the number of contacts in the list, whatever commands ran
\* before, cancelled and refused ones included.
C20_LastIndexIsCount == pc \in {"menu", "enter"} => last_index = Len(contacts)

\* The menu is about to show after an Add to a list of one contact: the
\* count is two, as the list.
C20_Witness ==
    /\ Ended("add")
    /\ Len(contacts) = 2
    /\ last_index = 2
    /\ contacts[1].index.ty = "int"
    /\ Len(entry.contacts) = 1
=============================================================================
